---- MODULE Spec2Model ----
(***************************************************************************)
(* Throttled event polling of reticulate (src/src/event_loop.cpp).         *)
(*                                                                         *)
(* A detached background thread (eventPollingWorker) wakes every 250ms,    *)
(* collects the EventPollingSignal and, when it was set, schedules         *)
(* pollForEvents on the Python main thread with Py_AddPendingCall.         *)
(* pollForEvents processes R events and sets the signal again.             *)
(*                                                                         *)
(* Every thread has a program counter named after the source line it is    *)
(* about to execute (cr73 = line 73 of collectRequest, ...).               *)
(***************************************************************************)
EXTENDS Integers, Sequences, FiniteSets, TLC

\* ------------------------------------------------------------------ bounds
\* Number of throttling threads that initialize() may start.
MaxWorkers == 2
\* Capacity of the interpreter's pending-call queue in the model.
MaxPending == 2
\* Counters of ticks, injections and requests are exact below this value.
MaxCount == 11
\* Length of the recorded history of signal operations (client harness).
MaxLog == 5

\* ----------------------------------------------------------------- threads
\* The thread running R and the Python interpreter (runs pollForEvents).
Main == 0
\* Identities of the threads started by initialize().
Workers == 1..MaxWorkers
Threads == {Main} \cup Workers
\* The two threads of the signal's client harness.
Clients == {Main, 1}

VARIABLES
  pc,                 \* pc[t]: where thread t is
  pollingRequested_,  \* EventPollingSignal::pollingRequested_
  mutex_,             \* EventPollingSignal::mutex_: the set of its holders
  requested,          \* requested[t]: local of collectRequest / its result
  pending,            \* pollForEvents entries in Python's pending-call queue
  interruptsSuspended,\* the host's interrupt-suspension state
  suspended_,         \* value saved by the InterruptsSuspendedScope
  toplevelOk,         \* result of the last R_ToplevelExec
  pyError,            \* a pending call returned a non-zero status
  injFailed,          \* some Py_AddPendingCall has returned -1
  entrySuspended,     \* history: suspension state when the callback was entered
  rearmed,            \* history: the running callback has set the signal
  armedSince,         \* history: a request took effect since the last collect
  everyInterval,      \* history: so it was at every collect so far
  nIter,              \* history: completed iterations of the throttling loop
  nInj,               \* history: calls of Py_AddPendingCall
  nReq,               \* history: requestPolling() calls that took effect
  tracking,           \* history: whether the three counters are kept
  nInit,              \* history: calls of initialize()
  log                 \* history: signal operations in the order of the mutex

vars == <<pc, pollingRequested_, mutex_, requested, pending,
          interruptsSuspended, suspended_, toplevelOk, pyError, injFailed,
          entrySuspended, rearmed, armedSince, everyInterval,
          nIter, nInj, nReq, tracking, nInit, log>>

\* Variables of the program proper, other than the signal and the pcs.
intervals == <<armedSince, everyInterval>>
hostVars == <<pending, interruptsSuspended, suspended_, toplevelOk, pyError,
              injFailed, entrySuspended, rearmed, intervals>>
counters == <<nIter, nInj, nReq, tracking, nInit>>

\* A counter that stops at MaxCount; below MaxCount it is exact.  Nothing is
\* counted when the history is not tracked.
Inc(c) == IF tracking /\ c < MaxCount THEN c + 1 ELSE c

\* ---------------------------------------------------- EventPollingSignal
\* Mutant: the constructor leaves the flag clear.
InitialRequestedFalse == FALSE

\* Value given to pollingRequested_ by the constructor.
InitialRequested == TRUE

\* tthread::lock_guard constructor: blocks until the mutex is free.
Lock(t) ==
  /\ mutex_ = {}
  /\ mutex_' = {t}

\* tthread::lock_guard destructor.
Unlock(t) ==
  /\ mutex_ = {t}
  /\ mutex_' = {}

\* Mutant: requestPolling() flips the flag instead of setting it.
RequestValueToggle == ~pollingRequested_

\* Value stored by requestPolling().
RequestValue == TRUE

\* requestPolling(), line 68: take the lock.
ReqLock(t) ==
  /\ pc[t] = "rp68"
  /\ Lock(t)
  /\ pc' = [pc EXCEPT ![t] = "rp69"]
  /\ UNCHANGED <<pollingRequested_, requested>>

\* requestPolling(), line 69: set the flag.
ReqWrite(t) ==
  /\ pc[t] = "rp69"
  /\ mutex_ = {t}
  /\ pollingRequested_' = RequestValue
  /\ pc' = [pc EXCEPT ![t] = "rp70"]
  /\ UNCHANGED <<mutex_, requested>>

\* Mutant: requestPolling() returns without releasing the mutex.
ReqUnlockLeak(t, cont) ==
  /\ pc[t] = "rp70"
  /\ pc' = [pc EXCEPT ![t] = cont]
  /\ UNCHANGED <<pollingRequested_, requested, mutex_>>

\* requestPolling(), line 70: release the lock and return to `cont`.
ReqUnlock(t, cont) ==
  /\ pc[t] = "rp70"
  /\ Unlock(t)
  /\ pc' = [pc EXCEPT ![t] = cont]
  /\ UNCHANGED <<pollingRequested_, requested>>

\* Mutant: collectRequest() goes on without taking the lock.
CollectNoLock(t) ==
  /\ pc[t] = "cr73"
  /\ pc' = [pc EXCEPT ![t] = "cr74"]
  /\ UNCHANGED <<pollingRequested_, requested, mutex_>>

\* collectRequest(), line 73: take the lock.
CollectLock(t) ==
  /\ pc[t] = "cr73"
  /\ Lock(t)
  /\ pc' = [pc EXCEPT ![t] = "cr74"]
  /\ UNCHANGED <<pollingRequested_, requested>>

\* Mutant: collectRequest() returns true whatever the flag is.
CollectReadTrue(t) ==
  /\ pc[t] = "cr74"
  /\ mutex_ = {t}
  /\ requested' = [requested EXCEPT ![t] = TRUE]
  /\ pc' = [pc EXCEPT ![t] = "cr75"]
  /\ UNCHANGED <<pollingRequested_, mutex_>>

\* Mutant: collectRequest() reads the flag after having cleared it.
CollectReadStale(t) ==
  /\ pc[t] = "cr74"
  /\ mutex_ = {t}
  /\ requested' = [requested EXCEPT ![t] = FALSE]
  /\ pc' = [pc EXCEPT ![t] = "cr75"]
  /\ UNCHANGED <<pollingRequested_, mutex_>>

\* collectRequest(), line 74: read the flag into the local.
CollectRead(t) ==
  /\ pc[t] = "cr74"
  /\ mutex_ = {t}
  /\ requested' = [requested EXCEPT ![t] = pollingRequested_]
  /\ pc' = [pc EXCEPT ![t] = "cr75"]
  /\ UNCHANGED <<pollingRequested_, mutex_>>

\* Mutant: collectRequest() does not clear the flag.
ClearValueKept == pollingRequested_

\* Value stored by collectRequest().
ClearValue == FALSE

\* Mutant: collectRequest() stores the negation of the value it read.
CollectClearInverted(t) ==
  /\ pc[t] = "cr75"
  /\ mutex_ = {t}
  /\ pollingRequested_' = ~requested[t]
  /\ pc' = [pc EXCEPT ![t] = "cr76"]
  /\ UNCHANGED <<mutex_, requested>>

\* collectRequest(), line 75: clear the flag.
CollectClear(t) ==
  /\ pc[t] = "cr75"
  /\ mutex_ = {t}
  /\ pollingRequested_' = ClearValue
  /\ pc' = [pc EXCEPT ![t] = "cr76"]
  /\ UNCHANGED <<mutex_, requested>>

\* collectRequest(), lines 76-77: return the local, releasing the lock.
CollectReturn(t, cont) ==
  /\ pc[t] = "cr76"
  /\ Unlock(t)
  /\ pc' = [pc EXCEPT ![t] = cont]
  /\ UNCHANGED <<pollingRequested_, requested>>

\* ------------------------------------------------------------ initialize()
\* Construction of the static s_pollingSignal; no thread started yet, the
\* main thread is running R code.  `track` says whether the history
\* counters are kept.
Boot(track) ==
  /\ tracking = track
  /\ pc = [t \in Threads |-> IF t = Main THEN "R" ELSE "off"]
  /\ pollingRequested_ = InitialRequested
  /\ mutex_ = {}
  /\ requested = [t \in Threads |-> FALSE]
  /\ pending = 0
  /\ interruptsSuspended \in BOOLEAN
  /\ suspended_ = FALSE
  /\ toplevelOk = TRUE
  /\ pyError = FALSE
  /\ injFailed = FALSE
  /\ entrySuspended = FALSE
  /\ rearmed = FALSE
  /\ armedSince = TRUE
  /\ everyInterval = TRUE
  /\ nIter = 0
  /\ nInj = 0
  /\ nReq = 0
  /\ nInit = 0
  /\ log = <<>>

Init == Boot(TRUE)

\* Threads started so far.
Started == {t \in Workers : pc[t] # "off"}

\* Mutant: initialize() starts a thread only when none is running yet.
initializeOnce ==
  /\ pc[Main] = "R"
  /\ nInit < MaxWorkers
  /\ pc' = IF Started = {}
           THEN [pc EXCEPT ![CHOOSE t \in Workers : \A u \in Workers : t <= u] = "epw101"]
           ELSE pc
  /\ nInit' = nInit + 1
  /\ UNCHANGED <<pollingRequested_, mutex_, requested, hostVars, nIter, nInj,
                 nReq, tracking, log>>

\* initialize(): start one more detached eventPollingWorker thread.  Called
\* by the main thread while it runs R code.
initialize ==
  /\ pc[Main] = "R"
  /\ \E t \in Workers :
       /\ pc[t] = "off"
       /\ \A u \in Workers : u < t => pc[u] # "off"
       /\ pc' = [pc EXCEPT ![t] = "epw101"]
  /\ nInit' = nInit + 1
  /\ UNCHANGED <<pollingRequested_, mutex_, requested, hostVars, nIter, nInj,
                 nReq, tracking, log>>

\* ------------------------------------------------------ eventPollingWorker
\* Line 101: the 250ms sleep ends; the thread goes on to collectRequest().
Sleep(t) ==
  /\ pc[t] = "epw101"
  /\ pc' = [pc EXCEPT ![t] = "cr73"]
  /\ UNCHANGED <<pollingRequested_, mutex_, requested, hostVars, counters, log>>

\* Py_AddPendingCall(pollForEvents, NULL): 0 and the call is queued, or -1
\* and nothing is queued (the queue is full or its lock was not obtained).
Py_AddPendingCall(ok) ==
  /\ ok => pending < MaxPending
  /\ pending' = IF ok THEN pending + 1 ELSE pending
  /\ injFailed' = (injFailed \/ ~ok)

\* Mutant: the worker sets the signal again itself after scheduling.
InjectRearm(t) ==
  /\ pc[t] = "epw108"
  /\ requested[t]
  /\ \E ok \in BOOLEAN : Py_AddPendingCall(ok)
  /\ pollingRequested_' = TRUE
  /\ pc' = [pc EXCEPT ![t] = "epw101"]
  /\ requested' = [requested EXCEPT ![t] = FALSE]
  /\ nInj' = Inc(nInj)
  /\ nIter' = Inc(nIter)
  /\ UNCHANGED <<mutex_, interruptsSuspended, suspended_,
                 toplevelOk, pyError, entrySuspended, rearmed, intervals,
                 nReq, tracking, nInit, log>>

\* Mutant: the worker sleeps only after a collect that returned false.
InjectNoSleep(t) ==
  /\ pc[t] = "epw108"
  /\ requested[t]
  /\ \E ok \in BOOLEAN : Py_AddPendingCall(ok)
  /\ pc' = [pc EXCEPT ![t] = "cr73"]
  /\ requested' = [requested EXCEPT ![t] = FALSE]
  /\ nInj' = Inc(nInj)
  /\ nIter' = Inc(nIter)
  /\ UNCHANGED <<pollingRequested_, mutex_, interruptsSuspended, suspended_,
                 toplevelOk, pyError, entrySuspended, rearmed, intervals,
                 nReq, tracking, nInit, log>>

\* Mutant: the worker has no loop: it ends after its first injection.
InjectOnce(t) ==
  /\ pc[t] = "epw108"
  /\ requested[t]
  /\ \E ok \in BOOLEAN : Py_AddPendingCall(ok)
  /\ pc' = [pc EXCEPT ![t] = "exit"]
  /\ requested' = [requested EXCEPT ![t] = FALSE]
  /\ nInj' = Inc(nInj)
  /\ nIter' = Inc(nIter)
  /\ UNCHANGED <<pollingRequested_, mutex_, interruptsSuspended, suspended_,
                 toplevelOk, pyError, entrySuspended, rearmed, intervals,
                 nReq, tracking, nInit, log>>

\* Lines 108-109, collectRequest() returned true: schedule pollForEvents,
\* ignore the result of Py_AddPendingCall, and loop back to the sleep.
Inject(t) ==
  /\ pc[t] = "epw108"
  /\ requested[t]
  /\ \E ok \in BOOLEAN : Py_AddPendingCall(ok)
  /\ pc' = [pc EXCEPT ![t] = "epw101"]
  /\ requested' = [requested EXCEPT ![t] = FALSE]
  /\ nInj' = Inc(nInj)
  /\ nIter' = Inc(nIter)
  /\ UNCHANGED <<pollingRequested_, mutex_, interruptsSuspended, suspended_,
                 toplevelOk, pyError, entrySuspended, rearmed, intervals,
                 nReq, tracking, nInit, log>>

\* Mutant: the worker schedules pollForEvents whatever collectRequest()
\* returned.
SkipInjectAnyway(t) ==
  /\ pc[t] = "epw108"
  /\ ~requested[t]
  /\ \E ok \in BOOLEAN : Py_AddPendingCall(ok)
  /\ pc' = [pc EXCEPT ![t] = "epw101"]
  /\ nInj' = Inc(nInj)
  /\ nIter' = Inc(nIter)
  /\ UNCHANGED <<pollingRequested_, mutex_, requested, interruptsSuspended,
                 suspended_, toplevelOk, pyError, entrySuspended, rearmed,
                 intervals, nReq, tracking, nInit, log>>

\* Line 108, collectRequest() returned false: loop back to the sleep.
SkipInject(t) ==
  /\ pc[t] = "epw108"
  /\ ~requested[t]
  /\ pc' = [pc EXCEPT ![t] = "epw101"]
  /\ nIter' = Inc(nIter)
  /\ UNCHANGED <<pollingRequested_, mutex_, requested, hostVars, nInj, nReq,
                 tracking, nInit, log>>

\* The worker's call of collectRequest() at line 108, step by step.
WorkerCollect(t) ==
  /\ \/ CollectLock(t) /\ UNCHANGED intervals
     \/ /\ CollectRead(t)
        /\ everyInterval' = (everyInterval /\ armedSince)
        /\ armedSince' = FALSE
     \/ CollectClear(t) /\ UNCHANGED intervals
     \/ CollectReturn(t, "epw108") /\ UNCHANGED intervals
  /\ UNCHANGED <<pending, interruptsSuspended, suspended_, toplevelOk, pyError,
                 injFailed, entrySuspended, rearmed, counters, log>>

\* --------------------------------------------------------- the main thread
\* The main thread enters the Python interpreter (R calls into Python).
PyEnter ==
  /\ pc[Main] = "R"
  /\ pc' = [pc EXCEPT ![Main] = "py"]
  /\ UNCHANGED <<pollingRequested_, mutex_, requested, hostVars, counters, log>>

\* Python execution ends; control is back in R.  Pending calls stay queued.
PyExit ==
  /\ pc[Main] = "py"
  /\ pc' = [pc EXCEPT ![Main] = "R"]
  /\ UNCHANGED <<pollingRequested_, mutex_, requested, hostVars, counters, log>>

\* R code changes the interrupt-suspension state outside the callback.
HostSetInterrupts ==
  /\ pc[Main] = "R"
  /\ interruptsSuspended' = ~interruptsSuspended
  /\ UNCHANGED <<pc, pollingRequested_, mutex_, requested, pending, suspended_,
                 toplevelOk, pyError, injFailed, entrySuspended, rearmed,
                 intervals, counters, log>>

\* The running interpreter takes one pending call: pollForEvents is entered.
RunPending ==
  /\ pc[Main] = "py"
  /\ pending > 0
  /\ pending' = pending - 1
  /\ pc' = [pc EXCEPT ![Main] = "pfe131"]
  /\ entrySuspended' = interruptsSuspended
  /\ rearmed' = FALSE
  /\ UNCHANGED <<pollingRequested_, mutex_, requested, interruptsSuspended,
                 suspended_, toplevelOk, pyError, injFailed, intervals,
                 counters, log>>

\* InterruptsSuspendedScope constructor: save the state, suspend interrupts.
ScopeEnter ==
  /\ suspended_' = interruptsSuspended
  /\ interruptsSuspended' = TRUE

\* InterruptsSuspendedScope destructor: restore the saved state.
ScopeExit ==
  /\ interruptsSuspended' = suspended_
  /\ suspended_' = FALSE

\* Mutant: the scope object is a temporary, destroyed before the event hook
\* is called.
PollSuspendTemporary ==
  /\ pc[Main] = "pfe131"
  /\ pc' = [pc EXCEPT ![Main] = "pfe132"]
  /\ UNCHANGED <<pollingRequested_, mutex_, requested, hostVars, counters, log>>

\* Mutant: pollForEvents suspends interrupts without a scope object, so
\* nothing is saved for the restore.
PollSuspendNoSave ==
  /\ pc[Main] = "pfe131"
  /\ interruptsSuspended' = TRUE
  /\ pc' = [pc EXCEPT ![Main] = "pfe132"]
  /\ UNCHANGED <<pollingRequested_, mutex_, requested, pending, suspended_,
                 toplevelOk, pyError, injFailed, entrySuspended, rearmed,
                 intervals, counters, log>>

\* pollForEvents, line 131: the scope object is constructed.
PollSuspend ==
  /\ pc[Main] = "pfe131"
  /\ ScopeEnter
  /\ pc' = [pc EXCEPT ![Main] = "pfe132"]
  /\ UNCHANGED <<pollingRequested_, mutex_, requested, pending, toplevelOk,
                 pyError, injFailed, entrySuspended, rearmed, intervals,
                 counters, log>>

\* Mutant: pollForEvents re-arms only when R_ToplevelExec succeeded.
AfterHookOnSuccess(ok) == IF ok THEN "rp68" ELSE "pfe140"

\* Where pollForEvents continues after R_ToplevelExec returned `ok`.
AfterHook(ok) == "rp68"

\* pollForEvents, line 132: R_ToplevelExec(processEvents) returns TRUE, or
\* FALSE when R_ProcessEvents raised an R error (the jump is contained).
PollProcessEvents ==
  /\ pc[Main] = "pfe132"
  /\ \E ok \in BOOLEAN :
       /\ toplevelOk' = ok
       /\ pc' = [pc EXCEPT ![Main] = AfterHook(ok)]
  /\ UNCHANGED <<pollingRequested_, mutex_, requested, pending,
                 interruptsSuspended, suspended_, pyError, injFailed,
                 entrySuspended, rearmed, intervals, counters, log>>

\* pollForEvents, line 137: the call of requestPolling(), step by step.
PollRequest ==
  \/ /\ ReqLock(Main)
     /\ UNCHANGED <<hostVars, counters, log>>
  \/ /\ ReqWrite(Main)
     /\ rearmed' = TRUE
     /\ armedSince' = TRUE
     /\ nReq' = Inc(nReq)
     /\ UNCHANGED <<pending, interruptsSuspended, suspended_, toplevelOk,
                    pyError, injFailed, entrySuspended, everyInterval,
                    nIter, nInj, tracking, nInit, log>>
  \/ /\ ReqUnlock(Main, "pfe140")
     /\ UNCHANGED <<hostVars, counters, log>>

\* Mutant: pollForEvents reports the failure of the event hook.
PollStatusFromHook == IF toplevelOk THEN 0 ELSE 1

\* Status returned by pollForEvents (line 140).
PollStatus == 0

\* Mutant: pollForEvents re-schedules itself directly before returning.
PollReturnReschedule ==
  /\ pc[Main] = "pfe140"
  /\ ScopeExit
  /\ pyError' = (pyError \/ PollStatus # 0)
  /\ pc' = [pc EXCEPT ![Main] = "py"]
  /\ pending < MaxPending
  /\ pending' = pending + 1
  /\ nInj' = Inc(nInj)
  /\ UNCHANGED <<pollingRequested_, mutex_, requested, toplevelOk,
                 injFailed, entrySuspended, rearmed, intervals, nIter, nReq,
                 tracking, nInit, log>>

\* pollForEvents, lines 140-142: return the status; the scope is destroyed.
\* The interpreter records an error when the status is not 0.
PollReturn ==
  /\ pc[Main] = "pfe140"
  /\ ScopeExit
  /\ pyError' = (pyError \/ PollStatus # 0)
  /\ pc' = [pc EXCEPT ![Main] = "py"]
  /\ UNCHANGED <<pollingRequested_, mutex_, requested, pending, toplevelOk,
                 injFailed, entrySuspended, rearmed, intervals, counters, log>>

\* One step of a throttling thread.
Worker(t) ==
  \/ Sleep(t)
  \/ WorkerCollect(t)
  \/ Inject(t)
  \/ SkipInject(t)

\* One step of pollForEvents on the main thread.
Callback ==
  \/ RunPending
  \/ PollSuspend
  \/ PollProcessEvents
  \/ PollRequest
  \/ PollReturn

Next ==
  \/ initialize
  \/ PyEnter
  \/ PyExit
  \/ HostSetInterrupts
  \/ Callback
  \/ \E t \in Workers : Worker(t)

Spec == Init /\ [][Next]_vars

\* ------------------------------------------- the signal under two clients
\* The EventPollingSignal alone, used by two threads that call
\* requestPolling() and collectRequest() in any order and at any time.  The
\* history `log` records, in the order in which the mutex was held, each
\* request ("req") and each collect with the value it returned ("colT",
\* "colF"); it records the first MaxLog operations.
Record(e) == log' = IF Len(log) < MaxLog THEN Append(log, e) ELSE log

SignalInit ==
  /\ tracking = FALSE
  /\ pc = [t \in Threads |-> IF t \in Clients THEN "client" ELSE "off"]
  /\ pollingRequested_ = InitialRequested
  /\ mutex_ = {}
  /\ requested = [t \in Threads |-> FALSE]
  /\ pending = 0
  /\ interruptsSuspended = FALSE
  /\ suspended_ = FALSE
  /\ toplevelOk = TRUE
  /\ pyError = FALSE
  /\ injFailed = FALSE
  /\ entrySuspended = FALSE
  /\ rearmed = FALSE
  /\ armedSince = TRUE
  /\ everyInterval = TRUE
  /\ nIter = 0
  /\ nInj = 0
  /\ nReq = 0
  /\ nInit = 0
  /\ log = <<>>

\* A client calls requestPolling().
ClientRequest(t) ==
  /\ pc[t] = "client"
  /\ pc' = [pc EXCEPT ![t] = "rp68"]
  /\ UNCHANGED <<pollingRequested_, mutex_, requested, hostVars, counters, log>>

\* A client calls collectRequest().
ClientCollect(t) ==
  /\ pc[t] = "client"
  /\ pc' = [pc EXCEPT ![t] = "cr73"]
  /\ UNCHANGED <<pollingRequested_, mutex_, requested, hostVars, counters, log>>

\* A step inside requestPolling() called by client t.
ClientRequestStep(t) ==
  /\ \/ ReqLock(t) /\ UNCHANGED log
     \/ ReqWrite(t) /\ Record("req")
     \/ ReqUnlock(t, "client") /\ UNCHANGED log
  /\ UNCHANGED <<hostVars, counters>>

\* A step inside collectRequest() called by client t.
ClientCollectStep(t) ==
  /\ \/ CollectLock(t) /\ UNCHANGED log
     \/ CollectRead(t) /\ UNCHANGED log
     \/ CollectClear(t) /\ UNCHANGED log
     \/ CollectReturn(t, "client") /\ Record(IF requested[t] THEN "colT" ELSE "colF")
  /\ UNCHANGED <<hostVars, counters>>

SignalNext ==
  \E t \in Clients :
    \/ ClientRequest(t)
    \/ ClientCollect(t)
    \/ ClientRequestStep(t)
    \/ ClientCollectStep(t)

SignalSpec == SignalInit /\ [][SignalNext]_vars

\* ------------------------------------------------- properties of the log
IsCollect(e) == e \in {"colT", "colF"}

\* Number of entries of the log equal to e.
CountOf(e) == Cardinality({i \in 1..Len(log) : log[i] = e})

\* No collect is recorded strictly between positions i and j.
NoCollectBetween(i, j) == \A k \in (i+1)..(j-1) : ~IsCollect(log[k])

\* No request is recorded strictly between positions i and j.
NoRequestBetween(i, j) == \A k \in (i+1)..(j-1) : log[k] # "req"

\* C1: under any interleaving of requestPolling() and collectRequest() by two
\* threads no request is consumed twice: a collect that returns true is the
\* first one to do so, or a request took effect since the previous collect
\* that returned true; hence the collects that returned true number at most
\* one (the initial value) more than the requests that took effect.
C1_NoDoubleConsume ==
  /\ CountOf("colT") <= 1 + CountOf("req")
  /\ \A i, j \in 1..Len(log) :
       (i < j /\ log[i] = "colT" /\ log[j] = "colT") => ~NoRequestBetween(i, j)

\* Two collects returned true, a request having taken effect between them.
C1_Witness ==
  \E i, j, k \in 1..Len(log) :
    i < k /\ k < j /\ log[i] = "colT" /\ log[k] = "req" /\ log[j] = "colT"

\* C2: no request is lost: the first collect to hold the mutex after a request
\* took effect returns true, whatever ran before or concurrently; so a request
\* made right after a collect returned false is returned by the next collect.
C2_NoLostRequest ==
  \A i, j \in 1..Len(log) :
    (i < j /\ log[i] = "req" /\ IsCollect(log[j]) /\ NoCollectBetween(i, j))
      => log[j] = "colT"

\* A collect returned false, then a request took effect, then the next
\* collect returned true.
C2_Witness ==
  \E i \in 1..Len(log) :
    /\ i + 2 <= Len(log)
    /\ log[i] = "colF" /\ log[i+1] = "req" /\ log[i+2] = "colT"

\* C4: requestPolling() is idempotent between collections: whatever the flag
\* was, it is set once requestPolling() has written it, so n >= 1 requests
\* leave the state one request leaves; after n >= 1 requests with no collect
\* among them the next collect returns true, and the collect after that
\* one, no request having intervened, returns false.
C4_RequestIdempotent ==
  /\ \A t \in Clients : pc[t] = "rp70" => pollingRequested_
  /\ \A i, j \in 1..Len(log) :
       (i < j /\ log[i] = "req" /\ IsCollect(log[j]) /\ NoCollectBetween(i, j))
         => /\ log[j] = "colT"
            /\ (j < Len(log) /\ IsCollect(log[j+1])) => log[j+1] = "colF"

\* Three requests in a row, then a collect returning true, then one
\* returning false.
C4_Witness ==
  log = <<"req", "req", "req", "colT", "colF">>

\* -------------------------------------------------- fairness of scheduling
\* Every started thread keeps being scheduled: a sleep ends, a thread that
\* can take a step takes it, and a thread waiting for the mutex obtains it
\* when it is free infinitely often (its rivals sleep 250ms between two
\* acquisitions).  The callback, once entered, runs to its end.
Fairness ==
  /\ \A t \in Workers : SF_vars(Worker(t))
  /\ SF_vars(PollSuspend \/ PollProcessEvents \/ PollRequest \/ PollReturn)

\* The program under fair scheduling.  The liveness properties do not read
\* the history counters, which are not kept here.
LiveInit == Boot(FALSE)

LiveSpec == LiveInit /\ [][Next]_vars /\ Fairness

\* ------------------------------------------------ properties of the program
\* Collects that have returned, and those among them that returned true.
NCol == nIter + Cardinality({t \in Workers : pc[t] = "epw108"})
NColT == nInj + Cardinality({t \in Workers : pc[t] = "epw108" /\ requested[t]})

\* The main thread is outside pollForEvents.
CallbackIdle == pc[Main] \in {"R", "py"}

\* No worker holds a request it has read from the signal.
NoneInHand == \A t \in Workers : ~requested[t]

\* C3: from the initial state and as long as no requestPolling() has taken
\* effect, the first collectRequest() of the throttling threads returns true
\* and every later one returns false.
C3_InitialPrimeOnce ==
  (tracking /\ nReq = 0 /\ nIter < MaxCount /\ NCol >= 1) => NColT = 1

\* Three ticks of one thread without any request: one injection.
C3_Witness ==
  /\ Cardinality(Started) = 1
  /\ nReq = 0 /\ nIter = 3 /\ nInj = 1

\* C5: while pollForEvents is not invoked a cleared flag stays cleared, and
\* once no worker holds a collected request no worker obtains one and no
\* call of Py_AddPendingCall is made; every started thread nevertheless is
\* again and again at its sleep and at the return of collectRequest().
C5_SelfQuiescence ==
  /\ [][(CallbackIdle /\ CallbackIdle' /\ ~pollingRequested_)
          => /\ ~pollingRequested_'
             /\ NoneInHand => /\ NoneInHand'
                              /\ \A t \in Workers : ~Inject(t)
                              /\ pending' = pending
                              /\ injFailed' = injFailed]_vars
  /\ \A t \in Workers : []<>(pc[t] \in {"off", "epw101"})
  /\ \A t \in Workers : []<>(pc[t] \in {"off", "epw108"})

\* A callback has run and re-armed the signal, Python has stopped, a tick
\* has drained the signal and queued a callback that is not run, and a
\* later tick has collected false.
C5_Witness ==
  /\ pc[Main] = "R" /\ ~pollingRequested_ /\ NoneInHand /\ pending = 1
  /\ rearmed /\ ~armedSince /\ ~everyInterval
  /\ \E t \in Workers : pc[t] = "epw101"

\* C6: with one throttling thread the calls of Py_AddPendingCall never
\* outnumber the completed ticks, and when a request took effect before every
\* collect (the initial value counting for the first) they equal the ticks.
C6_ThrottledSteadyState ==
  (tracking /\ Cardinality(Started) = 1 /\ nIter < MaxCount)
    => /\ nInj <= nIter
       /\ everyInterval => nInj = nIter

\* One thread, ten ticks, the callback having re-armed the signal after
\* each: ten injections.
C6_Witness ==
  /\ Cardinality(Started) = 1
  /\ everyInterval /\ nIter = 10 /\ nInj = 10 /\ nReq = 10

\* C7: whatever R_ToplevelExec returned, pollForEvents goes on to call
\* requestPolling(): the flag is true when the write is done, the callback
\* reaches its return only after it, and it never returns an error status.
C7_FailureIsolation ==
  /\ pc[Main] = "rp70" => pollingRequested_
  /\ pc[Main] = "pfe140" => rearmed
  /\ ~pyError

\* The event hook failed and the callback has set the signal and is about
\* to return.
C7_Witness ==
  pc[Main] = "pfe140" /\ ~toplevelOk /\ rearmed

\* C8: an injection failure is transient: after Py_AddPendingCall failed the
\* request is not lost, so that a later tick schedules pollForEvents again:
\* the flag is set, or a worker holds a collected request, or a callback is
\* queued or running.
C8_InjectionFailureTransient ==
  injFailed => \/ pollingRequested_
               \/ ~NoneInHand
               \/ pending > 0
               \/ ~CallbackIdle

\* C9: when pollForEvents returns, after either outcome of the event hook,
\* the interrupt-suspension state is what it was when it was entered.
C9_SuspensionScoped ==
  [][(pc[Main] = "pfe140" /\ pc'[Main] = "py")
       => interruptsSuspended' = entrySuspended]_vars

\* A callback whose hook failed has returned, and interrupts are not
\* suspended although they were during the callback.
C9_Witness ==
  /\ pc[Main] = "py" /\ rearmed /\ ~toplevelOk
  /\ ~entrySuspended /\ ~interruptsSuspended

\* Thread t is inside a critical section of the signal.
InCritical(t) == pc[t] \in {"rp69", "rp70", "cr74", "cr75", "cr76"}

\* C10 as stated: the throttling thread never waits for anything but its
\* sleep: when the only throttling thread is at the lock of collectRequest()
\* the mutex is free.
C10_BlocksOnlyOnSleep ==
  \A t \in Workers :
    (Cardinality(Started) = 1 /\ pc[t] = "cr73") => mutex_ = {}

\* C10, amended: a throttling thread waits only for its sleep and for the
\* mutex of the signal; the holder of the mutex waits for nothing, so no two
\* threads wait for each other; and every requestPolling() and
\* collectRequest() that starts completes (each thread is again and again
\* outside them).
C10_DeadlockFree ==
  /\ [](\A t \in Threads : mutex_ = {t} => InCritical(t))
  /\ [](\A t \in Workers :
          (pc[t] # "off" /\ ~ENABLED Worker(t)) => (pc[t] = "cr73" /\ mutex_ # {}))
  /\ \A t \in Workers : []<>(pc[t] \notin {"cr73", "cr74", "cr75", "cr76"})
  /\ []<>(pc[Main] \notin {"rp68", "rp69", "rp70"})

\* A throttling thread waits at the lock of collectRequest() while the main
\* thread is inside requestPolling().
C10_Witness ==
  \E t \in Workers : pc[t] = "cr73" /\ mutex_ = {Main}

\* C11: mutual exclusion on the signal: at most one thread is inside the
\* body of requestPolling() or collectRequest(), and it holds the mutex; the
\* flag changes only in a step of the holder; and between the read and the
\* clear of collectRequest() the flag still has the value read.
C11_MutualExclusion ==
  /\ [](Cardinality({t \in Threads : InCritical(t)}) <= 1)
  /\ [](\A t \in Threads : InCritical(t) => mutex_ = {t})
  /\ [](\A t \in Threads : pc[t] = "cr75" => pollingRequested_ = requested[t])
  /\ [][pollingRequested_' # pollingRequested_
          => \E t \in Threads : /\ mutex_ = {t}
                                /\ pc[t] \in {"rp69", "cr75"}
                                /\ pc'[t] # pc[t]]_vars

\* A throttling thread is between the read and the clear of
\* collectRequest() while the main thread waits at the lock of
\* requestPolling() and another throttling thread at that of collectRequest().
C11_Witness ==
  /\ pc[Main] = "rp68"
  /\ \E t, u \in Workers : pc[t] = "cr75" /\ pc[u] = "cr73"

\* C12: re-arming keeps the cycle alive: once pollForEvents has set the flag
\* a throttling thread gets true from collectRequest() and is about to call
\* Py_AddPendingCall; and if no Py_AddPendingCall fails and every queued
\* callback is eventually run, R_ToplevelExec is reached again after every
\* re-arm, hence infinitely often.
C12_CycleKeptAlive ==
  /\ (pc[Main] = "rp70") ~> (\E t \in Workers : pc[t] = "epw108" /\ requested[t])
  /\ ([]~injFailed /\ ((pending > 0) ~> (pc[Main] = "pfe131")))
       => ((pc[Main] = "rp70") ~> (pc[Main] = "pfe132"))

\* A callback has completed, a later tick has collected its request and the
\* thread is about to schedule pollForEvents again.
C12_Witness ==
  /\ rearmed /\ CallbackIdle /\ ~injFailed /\ pending = 0
  /\ \E t \in Workers : pc[t] = "epw108" /\ requested[t]

\* Thread t is in the loop of eventPollingWorker.
Running(t) == pc[t] \in {"epw101", "cr73", "cr74", "cr75", "cr76", "epw108"}

\* C13: every call of initialize() starts one more throttling thread: after
\* k calls k threads are in the loop of eventPollingWorker, and a thread in
\* the loop stays in it.
C13_OneThreadPerInitialize ==
  /\ [](Cardinality({t \in Workers : Running(t)}) = nInit)
  /\ [][\A t \in Workers : Running(t) => Running(t)']_vars

\* initialize() was called twice and two threads have each completed ticks.
C13_Witness ==
  /\ nInit = 2
  /\ Cardinality({t \in Workers : Running(t)}) = 2
  /\ nIter >= 4 /\ nInj >= 2

\* Successive places of a throttling thread.
WorkerOrder ==
  {<<"off", "epw101">>, <<"epw101", "cr73">>, <<"cr73", "cr74">>,
   <<"cr74", "cr75">>, <<"cr75", "cr76">>, <<"cr76", "epw108">>,
   <<"epw108", "epw101">>}

\* Thread t ends an iteration of its loop in this step.
EndsIteration(t) == pc[t] = "epw108" /\ pc'[t] # pc[t]

\* C14: an iteration of the throttling loop is a sleep, then a collect, then
\* one call of Py_AddPendingCall if the collect returned true and none if it
\* returned false, and then the sleep again; no other step, of pollForEvents
\* in particular, calls Py_AddPendingCall or adds to the queue.
C14_LoopOrder ==
  /\ [][\A t \in Workers : pc'[t] # pc[t] => <<pc[t], pc'[t]>> \in WorkerOrder]_vars
  /\ [][\A t \in Workers :
          EndsIteration(t)
            => IF requested[t]
               THEN nInj' = Inc(nInj) /\ pending' \in {pending, pending + 1}
               ELSE nInj' = nInj /\ pending' = pending]_vars
  /\ [][(\A t \in Workers : ~EndsIteration(t))
          => (nInj' = nInj /\ pending' <= pending)]_vars

\* One thread has injected twice, each time after a sleep, and has completed
\* a third iteration without injecting.
C14_Witness ==
  /\ Cardinality(Started) = 1
  /\ nIter = 3 /\ nInj = 2 /\ nReq = 1
  /\ \E t \in Workers : pc[t] = "epw101"

\* Successive places of the main thread.
MainOrder ==
  {<<"R", "py">>, <<"py", "R">>, <<"py", "pfe131">>, <<"pfe131", "pfe132">>,
   <<"pfe132", "rp68">>, <<"rp68", "rp69">>, <<"rp69", "rp70">>,
   <<"rp70", "pfe140">>, <<"pfe140", "py">>}

\* C15: pollForEvents suspends interrupts, then calls the event hook, then
\* requestPolling(), then returns: interrupts are suspended from the call of
\* the hook to the return, and the callback has not set the flag before the
\* hook has returned.
C15_CallbackOrder ==
  /\ [][pc'[Main] # pc[Main] => <<pc[Main], pc'[Main]>> \in MainOrder]_vars
  /\ [](pc[Main] \in {"pfe132", "rp68", "rp69", "rp70", "pfe140"}
          => interruptsSuspended)
  /\ [](pc[Main] \in {"pfe131", "pfe132", "rp68", "rp69"} => ~rearmed)
  /\ [][(~pollingRequested_ /\ pollingRequested_') => pc[Main] = "rp69"]_vars

\* The event hook is about to be called by a callback that was entered with
\* interrupts not suspended.
C15_Witness ==
  pc[Main] = "pfe132" /\ ~entrySuspended /\ interruptsSuspended /\ ~rearmed

\* C16: only the clear of collectRequest() takes the flag from true to
\* false; requestPolling() leaves a true flag true; the sleep, the call of
\* Py_AddPendingCall, the event hook and initialize() leave the flag as it
\* is; a thread whose collect read false leaves the flag and the queue as
\* they are for the rest of its iteration.
C16_FlagFrame ==
  /\ [][(pollingRequested_ /\ ~pollingRequested_')
          => \E t \in Threads : pc[t] = "cr75" /\ pc'[t] = "cr76"]_vars
  /\ [][(pollingRequested_ /\ pc[Main] = "rp69" /\ pc'[Main] = "rp70")
          => pollingRequested_']_vars
  /\ [][(\/ \E t \in Workers : pc[t] \in {"off", "epw101", "epw108"} /\ pc'[t] # pc[t]
         \/ pc[Main] = "pfe132" /\ pc'[Main] # pc[Main])
          => pollingRequested_' = pollingRequested_]_vars
  /\ [][\A t \in Workers :
          (pc[t] \in {"cr75", "cr76", "epw108"} /\ ~requested[t] /\ pc'[t] # pc[t])
            => (pollingRequested_' = pollingRequested_ /\ pending' = pending)]_vars

\* A tick has collected false while a callback was queued: flag and queue
\* are as they were.
C16_Witness ==
  /\ Cardinality(Started) = 1
  /\ nIter = 2 /\ nInj = 1 /\ pending = 1 /\ ~pollingRequested_
  /\ \E t \in Workers : pc[t] = "epw101"

\* C17: pollForEvents returns the status 0 whatever R_ToplevelExec returned:
\* the interpreter never gets a non-zero status from a pending call, and the
\* status computed at the return is 0 after a failed hook as after a
\* successful one.
C17_AlwaysSuccess ==
  /\ ~pyError
  /\ pc[Main] = "pfe140" => PollStatus = 0

\* A callback whose event hook failed has returned to the interpreter.
C17_Witness ==
  pc[Main] = "py" /\ rearmed /\ ~toplevelOk /\ ~pyError

\* Callbacks entered that have not yet set the flag: requestPolling() takes
\* effect at its write (line 69), made while the mutex is held.
InCallbackBeforeRequest ==
  IF pc[Main] \in {"pfe131", "pfe132", "rp68", "rp69"} THEN 1 ELSE 0

\* C18: the queued callbacks, the callbacks entered that have not yet set the
\* flag, and the flag itself when set, number at most one together, for one
\* or several throttling threads; the queue never holds two callbacks.
C18_SingleToken ==
  /\ pending + InCallbackBeforeRequest + (IF pollingRequested_ THEN 1 ELSE 0) <= 1
  /\ pending <= 1

\* Two throttling threads run and one callback is queued.
C18_Witness ==
  /\ Cardinality(Started) = 2
  /\ pending = 1 /\ ~pollingRequested_ /\ nInj >= 2

\* requestPolling() calls of pollForEvents that have returned (nReq counts
\* the writes of line 69; the call at line 70 has written, not returned).
CompletedRequests ==
  IF pc[Main] = "rp70" THEN nReq - 1 ELSE nReq

\* C19: for any number of throttling threads the calls of Py_AddPendingCall
\* number at most one more than the requestPolling() calls completed by
\* pollForEvents, so at most one when no callback ran; and at most one
\* thread at a time holds a true result of collectRequest().
C19_InjectionsBounded ==
  /\ tracking => nInj <= 1 + CompletedRequests
  /\ \A t, u \in Workers : requested[t] /\ requested[u] => t = u

\* Two throttling threads, three injections after two re-arms.
C19_Witness ==
  /\ Cardinality(Started) = 2
  /\ nInj = 3 /\ nReq = 2 /\ nIter >= 4

====
